---- MODULE Spec2Model ----
(***************************************************************************)
(* tagfs: the tag-path resolver, the inode codec, the tag index, its       *)
(* persistence and the FUSE callbacks of src/src/fs/tag.rs, as a state     *)
(* machine.  One action per callback (lookup, getattr, mkdir, unlink,      *)
(* rename, open, read, release, readdir) plus the process restart (load of *)
(* the savefile followed by the re-index pass).  Spec explores sessions    *)
(* and restarts; SpecPaths one session with a deeper tag tree; SpecNames   *)
(* the name-binding operations called with file names; SpecFiles the file  *)
(* callbacks and the open-file table; SpecReaddir resumed listings;        *)
(* SpecCodec the inode codec on all pairs of parts; SpecWide a session     *)
(* whose file numbers reach the width of the file part; SpecIntersection   *)
(* calculate_intersection called with arbitrary tag lists.                 *)
(*                                                                         *)
(* Scaling.  TLC's integers are 32-bit, so the 64-bit inode word is scaled *)
(* to WORD = 2 * SPLIT bits with the same layout (high half = file part,   *)
(* low half = tag part).  Hash-based containers (HashSet, BiMap) iterate   *)
(* in an order the program does not control: every iteration over one is   *)
(* a choice among all orders.                                              *)
(***************************************************************************)
EXTENDS Integers, Sequences, FiniteSets, TLC

\* ------------------------------------------------------------------ bounds
\* Width of one inode part in bits (32 in the program, scaled).
SPLIT == 8
\* The tag-tree counter is not advanced past this value.
MaxCounter == 3
\* file_tally is not advanced past this value.
MaxTally == 3
\* Number of restarts (stop and re-mount) explored.
MaxRestarts == 1
\* readdir is called with offsets 0..MaxOffset.
MaxOffset == 0
\* The tag-tree counter is not advanced past this value in SpecPaths.
MaxPathCounter == 5
\* No more than this many tags are made in SpecPaths.
MaxPathTags == 2
\* The open-file table is recorded for the handles 1..MaxHandles.
MaxHandles == 2
\* SpecReaddir calls readdir with offsets 0..MaxListOffset and with reply
\* buffers of 1..MaxBuf entries (and one that holds a whole directory).
MaxListOffset == 3
MaxBuf == 2

\* ------------------------------------------------------------------ names
SAVEFILE == ".tagfs"
TRASH == ".Trash-1000"
\* Names the source directory may hold (besides the savefile).
SourceNames == {"a", "b"}
\* Names given to tags.
TagNames == {"red", "blue"}
Names == SourceNames \cup TagNames \cup {TRASH}

\* errno values of libc
ENOENT == 2
EIO == 5
ENOTDIR == 20
ENOTSUP == 95

\* ------------------------------------------------------------- bit helpers
WORD == 2 * SPLIT
Pow2(n) == 2 ^ n

RECURSIVE BitOr(_, _)
BitOr(x, y) ==
    IF x = 0 THEN y
    ELSE IF y = 0 THEN x
    ELSE (IF (x % 2 = 1) \/ (y % 2 = 1) THEN 1 ELSE 0) + 2 * BitOr(x \div 2, y \div 2)

RECURSIVE BitAnd(_, _)
BitAnd(x, y) ==
    IF x = 0 \/ y = 0 THEN 0
    ELSE (IF (x % 2 = 1) /\ (y % 2 = 1) THEN 1 ELSE 0) + 2 * BitAnd(x \div 2, y \div 2)

\* ------------------------------------------------------------- inode codec
ROOT_INO == 1
ROOT == ROOT_INO

\* self.0 >> SPLIT
Ino_file(ino) == ino \div Pow2(SPLIT)
\* Ino_tag with a mask that is not shifted: self.0 & !0
Ino_tag_unmasked(ino) == BitAnd(ino, Pow2(WORD) - 1)

\* self.0 & (!0 >> SPLIT)
Ino_tag(ino) == BitAnd(ino, Pow2(WORD - SPLIT) - 1)
Ino_is_tag(ino) == Ino_file(ino) = 0
Ino_is_file(ino) == ~Ino_is_tag(ino)
\* mutant: the file part is not shifted
Ino_from_parts_unshifted(f, t) == BitOr(f, t)

\* (file << SPLIT) | tag, the shift dropping the bits beyond the word
Ino_from_parts(f, t) == BitOr((f * Pow2(SPLIT)) % Pow2(WORD), t)
Ino_from_tag(t) == Ino_from_parts(0, t)

\* ------------------------------------------------------------- collections
\* All orders in which a hash-based container of the elements S may iterate.
Orders(S) ==
    {s \in [1..Cardinality(S) -> S] : \A i, j \in 1..Cardinality(S) : s[i] = s[j] => i = j}

Range(s) == {s[i] : i \in DOMAIN s}

\* BiMap<L, R> as a set of <<left, right>> pairs.
BiMap_get_by_right(bm, r) ==
    IF \E p \in bm : p[2] = r THEN (CHOOSE p \in bm : p[2] = r)[1] ELSE 0
BiMap_get_by_left(bm, l) ==
    IF \E p \in bm : p[1] = l THEN (CHOOSE p \in bm : p[1] = l)[2] ELSE ""
BiMap_left_values(bm) == {p[1] : p \in bm}
BiMap_right_values(bm) == {p[2] : p \in bm}
\* insert overwrites: any pair with the same left or the same right is dropped
BiMap_insert(bm, l, r) == {p \in bm : p[1] # l /\ p[2] # r} \cup {<<l, r>>}
BiMap_remove_by_left(bm, l) == {p \in bm : p[1] # l}

\* IndexMap<K, V> as a sequence of [k, v] entries in insertion order.
IndexMap_keys(m) == {m[i].k : i \in DOMAIN m}
IndexMap_contains(m, key) == key \in IndexMap_keys(m)
IndexMap_get(m, key) == m[CHOOSE i \in DOMAIN m : m[i].k = key].v
\* insert replaces the value in place when the key exists, else appends
IndexMap_insert(m, key, val) ==
    IF IndexMap_contains(m, key)
    THEN [i \in DOMAIN m |-> IF m[i].k = key THEN [k |-> key, v |-> val] ELSE m[i]]
    ELSE Append(m, [k |-> key, v |-> val])

\* ------------------------------------------------------------ tag-path tree
\* A tree is [nodes, cache, counter]: nodes is the arena of TagNodes in
\* creation order (a node reference is its arena index, 0 is None), each
\* [ino_part, tag, parent]; a node's children, in push order, are the nodes
\* naming it as parent in arena order.  cache maps ino_part to a node
\* reference; nodes are never dropped, so every weak reference upgrades.
TagTree_new ==
    [nodes |-> <<[ino_part |-> ROOT, tag |-> ROOT, parent |-> 0]>>,
     cache |-> (ROOT :> 1),
     counter |-> ROOT]

TagTree_lookup(t, ip) == IF ip \in DOMAIN t.cache THEN t.cache[ip] ELSE 0

Children(t, node) == {i \in DOMAIN t.nodes : t.nodes[i].parent = node}

\* first child, in push order, whose tag is tg (0 when there is none)
find_child(t, node, tg) ==
    LET c == {i \in Children(t, node) : t.nodes[i].tag = tg}
    IN IF c = {} THEN 0 ELSE CHOOSE i \in c : \A j \in c : i <= j

\* collect_tags in leaf-to-root order
RECURSIVE collect_tags_leaf_first(_, _)
collect_tags_leaf_first(t, node) ==
    IF t.nodes[node].parent = 0 THEN <<>>
    ELSE <<t.nodes[node].tag>> \o collect_tags_leaf_first(t, t.nodes[node].parent)

RECURSIVE collect_tags(_, _)
collect_tags(t, node) ==
    IF t.nodes[node].parent = 0 THEN <<>>
    ELSE Append(collect_tags(t, t.nodes[node].parent), t.nodes[node].tag)

\* add_to with a cache that holds the root and the newest node only
add_to_forgetful(t, node, tg) ==
    LET c == t.counter + 1
    IN [nodes |-> Append(t.nodes, [ino_part |-> c, tag |-> tg, parent |-> node]),
        cache |-> [ip \in {ROOT, c} |-> IF ip = c THEN Len(t.nodes) + 1 ELSE 1],
        counter |-> c]

\* add_to leaving the counter as it was
add_to_stale(t, node, tg) ==
    LET c == t.counter + 1
    IN [nodes |-> Append(t.nodes, [ino_part |-> c, tag |-> tg, parent |-> node]),
        cache |-> [ip \in DOMAIN t.cache \cup {c} |->
                      IF ip = c THEN Len(t.nodes) + 1 ELSE t.cache[ip]],
        counter |-> t.counter]

\* add_to returns the tree; the new node is the last of the arena
add_to(t, node, tg) ==
    LET c == t.counter + 1
    IN [nodes |-> Append(t.nodes, [ino_part |-> c, tag |-> tg, parent |-> node]),
        cache |-> [ip \in DOMAIN t.cache \cup {c} |->
                      IF ip = c THEN Len(t.nodes) + 1 ELSE t.cache[ip]],
        counter |-> c]

\* mutant: a child is added whether or not there is one
add_to_always(t, node, tg) == <<add_to(t, node, tg), Len(t.nodes) + 1>>

\* add_to_if_needed as a pair <<tree, node>>
add_to_if_needed(t, node, tg) ==
    LET child == find_child(t, node, tg)
    IN IF child = 0
       THEN <<add_to(t, node, tg), Len(t.nodes) + 1>>
       ELSE <<t, child>>

\* create_new as a pair <<tree, tag number>>
create_new(t) ==
    LET tnb == t.counter + 1
    IN <<add_to(t, 1, tnb), tnb>>

\* ---------------------------------------------------------------- tag index
\* The index is [tag_content, files, tags, file_tally] (PersistentState).

get_fnb_by_name(ix, name) == BiMap_get_by_right(ix.files, name)
get_fnm_by_number(ix, number) == BiMap_get_by_left(ix.files, number)
get_tnb_by_name(ix, name) == BiMap_get_by_right(ix.tags, name)

RECURSIVE IntersectAll(_, _)
IntersectAll(result, sets) ==
    IF sets = <<>> THEN result ELSE IntersectAll(result \cap Head(sets), Tail(sets))

\* mutant: only the set of the directory's own tag is picked
PathSets_own(ix, path) ==
    LET own == IF path = <<>> THEN {} ELSE {path[Len(path)]}
        RECURSIVE Pick(_)
        Pick(i) ==
            IF i > Len(ix.tag_content) THEN <<>>
            ELSE IF ix.tag_content[i].k \in own
                 THEN <<ix.tag_content[i].v>> \o Pick(i + 1)
                 ELSE Pick(i + 1)
    IN Pick(1)

\* the sets of tag_content, in its order, whose key is on the path
PathSets(ix, path) ==
    LET RECURSIVE Pick(_)
        Pick(i) ==
            IF i > Len(ix.tag_content) THEN <<>>
            ELSE IF ix.tag_content[i].k \in Range(path)
                 THEN <<ix.tag_content[i].v>> \o Pick(i + 1)
                 ELSE Pick(i + 1)
    IN Pick(1)

\* Whether calculate_intersection aborts: split_first().unwrap() on no set.
intersection_panics(ix, path) == path # <<>> /\ PathSets(ix, path) = <<>>

\* mutant: the loop over the remaining sets is missing
calculate_intersection_first(ix, path) ==
    IF path = <<>> THEN BiMap_left_values(ix.files)
    ELSE LET sets == PathSets(ix, path)
         IN IF sets = <<>> THEN {} ELSE Head(sets)

calculate_intersection(ix, path) ==
    IF path = <<>> THEN BiMap_left_values(ix.files)
    ELSE LET sets == PathSets(ix, path)
         IN IF sets = <<>> THEN {} ELSE IntersectAll(Head(sets), Tail(sets))

\* mutant: the tag is numbered from file_tally as well
create_tag_tally(t, ix, name) ==
    LET cn == create_new(t)
        tnb == cn[2]
    IN <<cn[1],
         [ix EXCEPT !.tag_content = IndexMap_insert(@, tnb, {}),
                    !.tags = BiMap_insert(@, tnb, name),
                    !.file_tally = @ + 1],
         tnb>>

\* create_tag on <<tree, index>>, as <<tree, index, tag number>>
create_tag(t, ix, name) ==
    LET cn == create_new(t)
        tnb == cn[2]
    IN <<cn[1],
         [ix EXCEPT !.tag_content = IndexMap_insert(@, tnb, {}),
                    !.tags = BiMap_insert(@, tnb, name)],
         tnb>>

\* mutant: the number is taken from the count of bound files
add_file_count(ix, name) ==
    [ix EXCEPT !.file_tally = @ + 1,
               !.files = BiMap_insert(@, Cardinality(ix.files) + 2, name)]

add_file(ix, name) ==
    [ix EXCEPT !.file_tally = @ + 1,
               !.files = BiMap_insert(@, ix.file_tally + 1, name)]

\* get_mut(&to).unwrap() aborts when the tag is no key of tag_content
set_op_panics(ix, tg) == ~IndexMap_contains(ix.tag_content, tg)

add_file_to(ix, f, to) ==
    [ix EXCEPT !.tag_content =
        [i \in DOMAIN @ |-> IF @[i].k = to THEN [@[i] EXCEPT !.v = @ \cup {f}] ELSE @[i]]]

\* mutant: the file is taken out of every set, as omit_file does
remove_file_from_every(ix, f, from) ==
    [ix EXCEPT !.tag_content = [i \in DOMAIN @ |-> [@[i] EXCEPT !.v = @ \ {f}]]]

remove_file_from(ix, f, from) ==
    [ix EXCEPT !.tag_content =
        [i \in DOMAIN @ |-> IF @[i].k = from THEN [@[i] EXCEPT !.v = @ \ {f}] ELSE @[i]]]

RECURSIVE remove_file_from_all(_, _, _)
remove_file_from_all(ix, f, path) ==
    IF path = <<>> THEN ix
    ELSE remove_file_from_all(remove_file_from(ix, f, Head(path)), f, Tail(path))

RECURSIVE add_file_to_all(_, _, _)
add_file_to_all(ix, f, path) ==
    IF path = <<>> THEN ix
    ELSE add_file_to_all(add_file_to(ix, f, Head(path)), f, Tail(path))

\* mutant: the two loops in the other order
move_file_add_first(ix, f, oldtags, newtags) ==
    remove_file_from_all(add_file_to_all(ix, f, newtags), f, oldtags)

\* the file-move case of rename: off every tag of the old path, then onto
\* every tag of the new path
move_file(ix, f, oldtags, newtags) ==
    add_file_to_all(remove_file_from_all(ix, f, oldtags), f, newtags)

omit_file(ix, fnb) ==
    [ix EXCEPT !.files = BiMap_remove_by_left(@, fnb),
               !.tag_content = [i \in DOMAIN @ |-> [@[i] EXCEPT !.v = @ \ {fnb}]]]

RECURSIVE add_files(_, _)
add_files(ix, order) ==
    IF order = <<>> THEN ix ELSE add_files(add_file(ix, Head(order)), Tail(order))

\* repopulate taking the files that are gone out of the first set only
repopulate_first_set(ix, listing, order) ==
    LET fs == listing \ {SAVEFILE}
        gone == {p \in ix.files : p[2] \notin fs}
        kept == [ix EXCEPT
                   !.files = @ \ gone,
                   !.tag_content =
                       [i \in DOMAIN @ |->
                           IF i = 1 THEN [@[i] EXCEPT !.v = @ \ {p[1] : p \in gone}] ELSE @[i]]]
    IN add_files(kept, order)

\* mutant: the test of the retain closure is inverted
repopulate_inverted(ix, listing, order) ==
    LET fs == listing \ {SAVEFILE}
        gone == {p \in ix.files : p[2] \in fs}
        kept == [ix EXCEPT
                   !.files = @ \ gone,
                   !.tag_content =
                       [i \in DOMAIN @ |-> [@[i] EXCEPT !.v = @ \ {p[1] : p \in gone}]]]
    IN add_files(kept, order)

\* mutant: the files that are gone stay in the sets of tag_content
repopulate_keep_sets(ix, listing, order) ==
    LET fs == listing \ {SAVEFILE}
        gone == {p \in ix.files : p[2] \notin fs}
    IN add_files([ix EXCEPT !.files = @ \ gone], order)

\* repopulate with the new files added in the given order (one of the orders
\* in which the HashSet of remaining names iterates); the save is the caller's
repopulate(ix, listing, order) ==
    LET fs == listing \ {SAVEFILE}
        gone == {p \in ix.files : p[2] \notin fs}
        kept == [ix EXCEPT
                   !.files = @ \ gone,
                   !.tag_content =
                       [i \in DOMAIN @ |-> [@[i] EXCEPT !.v = @ \ {p[1] : p \in gone}]]]
    IN add_files(kept, order)

\* mutant: the savefile is not taken out of the listing
NewNames_all(ix, listing) == listing \ BiMap_right_values(ix.files)

\* the names repopulate adds: those of the listing not bound before
NewNames(ix, listing) == (listing \ {SAVEFILE}) \ BiMap_right_values(ix.files)

\* -------------------------------------------------------------- persistence
\* The bytes of a name (OsString).
Bytes(name) ==
    CASE name = "a" -> <<97>>
      [] name = "b" -> <<98>>
      [] name = "red" -> <<114, 101, 100>>
      [] name = "blue" -> <<98, 108, 117, 101>>
      [] name = TRASH -> <<46, 84, 114, 97, 115, 104, 45, 49, 48, 48, 48>>
      [] name = SAVEFILE -> <<46, 116, 97, 103, 102, 115>>

RECURSIVE Concat(_)
Concat(ss) == IF ss = <<>> THEN <<>> ELSE Head(ss) \o Concat(Tail(ss))

\* bincode, standard configuration: an integer below 251 is one byte (every
\* integer that is encoded is), a sequence is its length then its elements, an
\* OsString is the variant index 0 (Unix) then its bytes as a sequence.
EncodeName(name) == <<0, Len(Bytes(name))>> \o Bytes(name)

\* a HashSet<FileNumber>: its length, then its elements in iteration order
EncodeSet(S) == {<<Cardinality(S)>> \o o : o \in Orders(S)}

\* a BiMap: its length, then left and right of each pair in iteration order
EncodeBiMap(bm) ==
    {<<Cardinality(bm)>> \o Concat([i \in DOMAIN o |-> <<o[i][1]>> \o EncodeName(o[i][2])]) :
        o \in Orders(bm)}

\* tag_content (indexmap::serde_seq): its length, then each (key, set) in map order
RECURSIVE EncodeEntries(_)
EncodeEntries(m) ==
    IF m = <<>> THEN {<<>>}
    ELSE {<<Head(m).k>> \o a \o b : a \in EncodeSet(Head(m).v), b \in EncodeEntries(Tail(m))}

\* Every byte sequence encode_to_vec may produce for the index.
encode(ix) ==
    {<<Len(ix.tag_content)>> \o tc \o fs \o tg \o <<ix.file_tally>> :
        tc \in EncodeEntries(ix.tag_content),
        fs \in EncodeBiMap(ix.files),
        tg \in EncodeBiMap(ix.tags)}

\* Decoders return <<value, remaining bytes>>.
RECURSIVE DecodeSet(_, _, _)
DecodeSet(bytes, n, acc) ==
    IF n = 0 THEN <<acc, bytes>>
    ELSE DecodeSet(Tail(bytes), n - 1, acc \cup {Head(bytes)})

DecodeName(bytes) ==
    LET len == bytes[2]
        body == SubSeq(bytes, 3, 2 + len)
    IN <<CHOOSE n \in Names : Bytes(n) = body,
         SubSeq(bytes, 3 + len, Len(bytes))>>

RECURSIVE DecodeBiMap(_, _, _)
DecodeBiMap(bytes, n, acc) ==
    IF n = 0 THEN <<acc, bytes>>
    ELSE LET nm == DecodeName(Tail(bytes))
         IN DecodeBiMap(nm[2], n - 1, BiMap_insert(acc, Head(bytes), nm[1]))

\* DecodeEntries building the map back to front
RECURSIVE DecodeEntries_prepend(_, _, _)
DecodeEntries_prepend(bytes, n, acc) ==
    IF n = 0 THEN <<acc, bytes>>
    ELSE LET st == DecodeSet(SubSeq(bytes, 3, Len(bytes)), bytes[2], {})
         IN DecodeEntries_prepend(st[2], n - 1, <<[k |-> bytes[1], v |-> st[1]]>> \o acc)

RECURSIVE DecodeEntries(_, _, _)
DecodeEntries(bytes, n, acc) ==
    IF n = 0 THEN <<acc, bytes>>
    ELSE LET st == DecodeSet(SubSeq(bytes, 3, Len(bytes)), bytes[2], {})
         IN DecodeEntries(st[2], n - 1, IndexMap_insert(acc, bytes[1], st[1]))

decode(bytes) ==
    LET tc == DecodeEntries(Tail(bytes), Head(bytes), <<>>)
        fs == DecodeBiMap(Tail(tc[2]), Head(tc[2]), {})
        tg == DecodeBiMap(Tail(fs[2]), Head(fs[2]), {})
    IN [tag_content |-> tc[1], files |-> fs[1], tags |-> tg[1], file_tally |-> Head(tg[2])]

\* TagFS::new: the empty index, file_tally 1 (the tree is new as well)
TagFS_new == [tag_content |-> <<>>, files |-> {}, tags |-> {}, file_tally |-> 1]

\* new_from_save: the index decoded from the savefile (the tree is new)
new_from_save(bytes) == decode(bytes)

\* ------------------------------------------------------------ backing store
\* ExternalFS.open_files as a set of <<handle, name>>.  A handle is the raw
\* descriptor of the File, which the system takes as the lowest one free;
\* descriptors are numbered from 1 leaving out those the process holds
\* otherwise.  The table is recorded for the handles 1..MaxHandles: an entry
\* under a higher handle is not recorded.
backing_handles(table) == {p[1] : p \in table}

\* next_handle taking the first descriptor whether or not it is free
next_handle_first(table) == 1

\* the descriptor the next File::open / File::create yields
next_handle(table) ==
    LET free == (1..MaxHandles) \ backing_handles(table)
    IN IF free = {} THEN MaxHandles + 1 ELSE CHOOSE h \in free : \A g \in free : h <= g

\* open and create: the new File is inserted under its handle
backing_insert(table, name) ==
    IF next_handle(table) <= MaxHandles
    THEN table \cup {<<next_handle(table), name>>}
    ELSE table

backing_release(table, handle) == {p \in table : p[1] # handle}

\* read indexes the table with the handle: self.open_files.borrow_mut()[&handle]
read_panics(table, handle) == handle \notin backing_handles(table)

\* the table of a process that has started: new_from_save has opened and
\* released the savefile (if any) and repopulate's save has created it
started_table == backing_insert({}, SAVEFILE)

\* ------------------------------------------------------------------- state
VARIABLES
    tree,         \* TagFS.tree: the tag-path tree of this session
    tag_content,  \* TagFS.tag_content
    files,        \* TagFS.files
    tags,         \* TagFS.tags
    file_tally,   \* TagFS.file_tally
    savefile,     \* .tagfs: the PersistentState the last save encoded (<<>>: no file)
    open_files,   \* ExternalFS.open_files: <<handle, name>> for the handles 1..MaxHandles
    reply,        \* the reply of the callback in flight (or the log of the mount)
    before,       \* history: the tree and the index when that callback started
    restarts      \* number of restarts so far

vars == <<tree, tag_content, files, tags, file_tally, savefile, open_files, reply, before,
         restarts>>

Index == [tag_content |-> tag_content, files |-> files, tags |-> tags, file_tally |-> file_tally]

SetIndex(ix) ==
    /\ tag_content' = ix.tag_content
    /\ files' = ix.files
    /\ tags' = ix.tags
    /\ file_tally' = ix.file_tally

\* save with create and write succeeding: .tagfs is rewritten with an encoding
\* of ix.  The variable keeps the state that was encoded; which of its
\* encodings the file holds is drawn when the file is read (SavedBytes).
\* mutant: the state is encoded as it was before the operation
save_stale(ix) ==
    /\ savefile' = Index
    /\ open_files' = backing_insert(open_files, SAVEFILE)

save(ix) ==
    /\ savefile' = ix
    /\ open_files' = backing_insert(open_files, SAVEFILE)

\* the byte sequences .tagfs may hold
SavedBytes == IF savefile = <<>> THEN {<<>>} ELSE encode(savefile)

Reply(op, args, res, errno, ino, entries) ==
    [op |-> op, args |-> args, res |-> res, errno |-> errno, ino |-> ino, entries |-> entries]

Error(op, args, errno) == Reply(op, args, "error", errno, 0, <<>>)
\* a callback that aborts (panics) instead of replying; the process is gone
Panic(op, args) == Reply(op, args, "panic", 0, 0, <<>>)

\* The kernel invokes one callback at a time: a callback starts when the
\* reply of the previous one has been taken (reply = Idle).  A callback that
\* panicked leaves no process to call.
Idle == Reply("", <<>>, "idle", 0, 0, <<>>)
Alive == reply = Idle

\* what `before` records as a callback starts, and when none is in flight
Snapshot ==
    [tree |-> tree, index |-> Index, savefile |-> savefile, open_files |-> open_files]
NoSnapshot ==
    [tree |-> TagTree_new, index |-> TagFS_new, savefile |-> <<>>, open_files |-> {}]

\* the kernel takes the reply of the callback (or the mount has finished)
Deliver ==
    /\ reply # Idle
    /\ reply.res # "panic"
    /\ reply' = Idle
    /\ before' = NoSnapshot
    /\ UNCHANGED <<tree, tag_content, files, tags, file_tally, savefile, open_files, restarts>>

\* ------------------------------------------------------------------- mount
\* Start of a process on a source directory holding the names N: the index is
\* loaded from the savefile (the empty index when there is none), the
\* directory is re-indexed, the result is saved.  The log of a mount is the
\* listing and the names added, in the order they were added.
\* what read_dir of the source directory yields: N and the savefile, if any
Listing(bytes, N) == N \cup (IF bytes = <<>> THEN {} ELSE {SAVEFILE})

\* the index a starting process loads
Loaded(bytes) == IF bytes = <<>> THEN TagFS_new ELSE new_from_save(bytes)

MountLog(listing, order) == Reply("mount", <<listing>>, "ok", 0, 0, order)

Init ==
    /\ tree = TagTree_new
    /\ restarts = 0
    /\ before = NoSnapshot
    /\ \E N \in SUBSET SourceNames :
          \E order \in Orders(NewNames(Loaded(<<>>), Listing(<<>>, N))) :
             LET ix == repopulate(Loaded(<<>>), Listing(<<>>, N), order)
             IN /\ tag_content = ix.tag_content
                /\ files = ix.files
                /\ tags = ix.tags
                /\ file_tally = ix.file_tally
                /\ savefile = ix
                /\ open_files = started_table
                /\ reply = MountLog(Listing(<<>>, N), order)

Remount(N) ==
    /\ reply = Idle \/ reply.res = "panic"
    /\ before' = Snapshot
    /\ restarts' = restarts + 1
    /\ tree' = TagTree_new
    /\ \E bytes \in SavedBytes :
          \E order \in Orders(NewNames(Loaded(bytes), Listing(bytes, N))) :
             LET ix == repopulate(Loaded(bytes), Listing(bytes, N), order)
             IN /\ SetIndex(ix)
                /\ savefile' = ix
                /\ open_files' = started_table
                /\ reply' = MountLog(Listing(bytes, N), order)

\* --------------------------------------------------------------- callbacks
\* Arguments of the callbacks.  Inodes: the directory inodes the counter can
\* issue (not all of them issued yet) and the inode of file 2 as seen under
\* the root.
DirArgs == {Ino_from_tag(i) : i \in 1..MaxCounter}
InoArgs == DirArgs \cup {Ino_from_parts(2, ROOT)}
\* Names looked up: the source names and the tag names.
NameArgs == SourceNames \cup TagNames
\* Names unlinked: the source names and a name that is no file.
UnlinkArgs == SourceNames \cup {"red"}
\* Names given to mkdir: the tag names and the refused name.
MkdirArgs == TagNames \cup {TRASH}
\* rename(parent, name, newparent, newname): a name (a tag name or a file
\* name) renamed in place to a tag name, a file name moved between two
\* directory inodes, moved within a directory, and moved from or to a file inode.
RenameArgs ==
    {<<ROOT, n, ROOT, m>> : n \in TagNames \cup {"a"}, m \in TagNames}
        \cup {<<d[1], n, d[2], n>> :
                 d \in {x \in DirArgs \X DirArgs : x[1] # x[2]}, n \in SourceNames}
        \cup {<<ROOT, "b", ROOT, "b">>}
        \cup {<<Ino_from_parts(2, ROOT), "a", ROOT, "a">>,
              <<ROOT, "a", Ino_from_parts(2, ROOT), "a">>}

\* whether the file is in the set of every tag of the path (a tag that is no
\* key of tag_content counts as not containing it)
\* mutant: only the directory's own tag (the last of the path) is checked
in_all_last(ix, path, f) ==
    path # <<>> =>
        /\ IndexMap_contains(ix.tag_content, path[Len(path)])
        /\ f \in IndexMap_get(ix.tag_content, path[Len(path)])

in_all(ix, path, f) ==
    \A i \in DOMAIN path :
        /\ IndexMap_contains(ix.tag_content, path[i])
        /\ f \in IndexMap_get(ix.tag_content, path[i])

lookup(parent, name, meta_ok) ==
    LET args == <<parent, name>>
        node == TagTree_lookup(tree, Ino_tag(parent))
        f == get_fnb_by_name(Index, name)
        tn == BiMap_get_by_right(tags, name)
        made == add_to_if_needed(tree, node, tn)
    IN /\ Alive
       /\ before' = Snapshot
       /\ UNCHANGED <<tag_content, files, tags, file_tally, savefile, open_files, restarts>>
       /\ IF Ino_is_file(parent) THEN
              /\ reply' = Error("lookup", args, ENOTDIR)
              /\ UNCHANGED tree
          ELSE IF node = 0 THEN
              /\ reply' = Error("lookup", args, ENOENT)
              /\ UNCHANGED tree
          ELSE IF f = 0 THEN
              IF tn = 0 THEN
                  /\ reply' = Error("lookup", args, ENOENT)
                  /\ UNCHANGED tree
              ELSE
                  /\ tree' = made[1]
                  /\ reply' = Reply("lookup", args, "dir", 0,
                                    Ino_from_tag(made[1].nodes[made[2]].ino_part), <<>>)
          ELSE
              /\ UNCHANGED tree
              /\ IF in_all(Index, collect_tags(tree, node), f) THEN
                     IF meta_ok
                     THEN reply' = Reply("lookup", args, "file", 0,
                                         Ino_from_parts(f, Ino_tag(parent)), <<>>)
                     ELSE reply' = Error("lookup", args, EIO)
                 ELSE reply' = Error("lookup", args, ENOENT)

\* getattr making a node under the root for a directory inode it does not know
getattr_adding(ino, meta_ok) ==
    /\ Alive
    /\ before' = Snapshot
    /\ UNCHANGED <<tag_content, files, tags, file_tally, savefile, open_files, restarts>>
    /\ tree' = IF Ino_is_tag(ino) /\ TagTree_lookup(tree, Ino_tag(ino)) = 0
                THEN add_to(tree, 1, Ino_tag(ino))
                ELSE tree
    /\ IF Ino_is_tag(ino) THEN reply' = Reply("getattr", <<ino>>, "dir", 0, ino, <<>>)
       ELSE IF get_fnm_by_number(Index, Ino_file(ino)) = ""
            THEN reply' = Error("getattr", <<ino>>, ENOENT)
            ELSE IF meta_ok THEN reply' = Reply("getattr", <<ino>>, "file", 0, ino, <<>>)
                 ELSE reply' = Error("getattr", <<ino>>, EIO)

getattr(ino, meta_ok) ==
    /\ Alive
    /\ before' = Snapshot
    /\ UNCHANGED <<tree, tag_content, files, tags, file_tally, savefile, open_files, restarts>>
    /\ IF Ino_is_tag(ino) THEN reply' = Reply("getattr", <<ino>>, "dir", 0, ino, <<>>)
       ELSE IF get_fnm_by_number(Index, Ino_file(ino)) = ""
            THEN reply' = Error("getattr", <<ino>>, ENOENT)
            ELSE IF meta_ok THEN reply' = Reply("getattr", <<ino>>, "file", 0, ino, <<>>)
                 ELSE reply' = Error("getattr", <<ino>>, EIO)

\* mkdir testing the reserved name after the tag has been made
mkdir_tag_first(name) ==
    LET made == create_tag(tree, Index, name)
    IN /\ Alive
       /\ before' = Snapshot
       /\ UNCHANGED restarts
       /\ tree' = made[1]
       /\ SetIndex(made[2])
       /\ IF name = TRASH THEN
              /\ reply' = Error("mkdir", <<name>>, ENOTSUP)
              /\ UNCHANGED <<savefile, open_files>>
          ELSE
              /\ reply' = Reply("mkdir", <<name>>, "dir", 0, Ino_from_tag(made[3]), <<>>)
              /\ save(made[2])

mkdir(name) ==
    LET made == create_tag(tree, Index, name)
    IN /\ Alive
       /\ before' = Snapshot
       /\ UNCHANGED restarts
       /\ IF name = TRASH THEN
              /\ reply' = Error("mkdir", <<name>>, ENOTSUP)
              /\ UNCHANGED <<tree, tag_content, files, tags, file_tally, savefile, open_files>>
          ELSE
              /\ tree' = made[1]
              /\ SetIndex(made[2])
              /\ reply' = Reply("mkdir", <<name>>, "dir", 0, Ino_from_tag(made[3]), <<>>)
              /\ save(made[2])

unlink(parent, name) ==
    LET args == <<parent, name>>
        node == TagTree_lookup(tree, Ino_tag(parent))
        f == get_fnb_by_name(Index, name)
        path == collect_tags(tree, node)
    IN /\ Alive
       /\ before' = Snapshot
       /\ UNCHANGED <<tree, restarts>>
       /\ IF node = 0 \/ f = 0 THEN
              /\ reply' = Error("unlink", args, ENOENT)
              /\ UNCHANGED <<tag_content, files, tags, file_tally, savefile, open_files>>
          ELSE IF \E i \in DOMAIN path : set_op_panics(Index, path[i]) THEN
              /\ reply' = Panic("unlink", args)
              /\ UNCHANGED <<tag_content, files, tags, file_tally, savefile, open_files>>
          ELSE
              /\ SetIndex(remove_file_from_all(Index, f, path))
              /\ reply' = Reply("unlink", args, "ok", 0, 0, <<>>)
              /\ save(remove_file_from_all(Index, f, path))

\* rename taking every rename that keeps the name as a move of the file
rename_any_parent(parent, name, newparent, newname) ==
    LET args == <<parent, name, newparent, newname>>
        tg == get_tnb_by_name(Index, name)
        f == get_fnb_by_name(Index, name)
        old == TagTree_lookup(tree, Ino_tag(parent))
        new == TagTree_lookup(tree, Ino_tag(newparent))
        oldtags == collect_tags(tree, old)
        newtags == collect_tags(tree, new)
        moved == move_file(Index, f, oldtags, newtags)
        renamed == [Index EXCEPT !.tags = BiMap_insert(@, tg, newname)]
    IN /\ Alive
       /\ before' = Snapshot
       /\ UNCHANGED <<tree, restarts>>
       /\ IF tg # 0 THEN
              /\ SetIndex(renamed)
              /\ reply' = Reply("rename", args, "ok", 0, 0, <<>>)
              /\ save(renamed)
          ELSE IF name = newname THEN
              IF f = 0 \/ old = 0 \/ new = 0 THEN
                  /\ reply' = Error("rename", args, ENOENT)
                  /\ UNCHANGED <<tag_content, files, tags, file_tally, savefile, open_files>>
              ELSE IF \E i \in DOMAIN (oldtags \o newtags) :
                          set_op_panics(Index, (oldtags \o newtags)[i]) THEN
                  /\ reply' = Panic("rename", args)
                  /\ UNCHANGED <<tag_content, files, tags, file_tally, savefile, open_files>>
              ELSE
                  /\ SetIndex(moved)
                  /\ reply' = Reply("rename", args, "ok", 0, 0, <<>>)
                  /\ save(moved)
          ELSE
              /\ reply' = Error("rename", args, ENOTSUP)
              /\ UNCHANGED <<tag_content, files, tags, file_tally, savefile, open_files>>

rename(parent, name, newparent, newname) ==
    LET args == <<parent, name, newparent, newname>>
        tg == get_tnb_by_name(Index, name)
        f == get_fnb_by_name(Index, name)
        old == TagTree_lookup(tree, Ino_tag(parent))
        new == TagTree_lookup(tree, Ino_tag(newparent))
        oldtags == collect_tags(tree, old)
        newtags == collect_tags(tree, new)
        moved == move_file(Index, f, oldtags, newtags)
        renamed == [Index EXCEPT !.tags = BiMap_insert(@, tg, newname)]
    IN /\ Alive
       /\ before' = Snapshot
       /\ UNCHANGED <<tree, restarts>>
       /\ IF tg # 0 THEN
              /\ SetIndex(renamed)
              /\ reply' = Reply("rename", args, "ok", 0, 0, <<>>)
              /\ save(renamed)
          ELSE IF name = newname /\ parent # newparent THEN
              IF f = 0 \/ old = 0 \/ new = 0 THEN
                  /\ reply' = Error("rename", args, ENOENT)
                  /\ UNCHANGED <<tag_content, files, tags, file_tally, savefile, open_files>>
              ELSE IF \E i \in DOMAIN (oldtags \o newtags) :
                          set_op_panics(Index, (oldtags \o newtags)[i]) THEN
                  /\ reply' = Panic("rename", args)
                  /\ UNCHANGED <<tag_content, files, tags, file_tally, savefile, open_files>>
              ELSE
                  /\ SetIndex(moved)
                  /\ reply' = Reply("rename", args, "ok", 0, 0, <<>>)
                  /\ save(moved)
          ELSE
              /\ reply' = Error("rename", args, ENOTSUP)
              /\ UNCHANGED <<tag_content, files, tags, file_tally, savefile, open_files>>

\* ----------------------------------------------------------------- readdir
Min(a, b) == IF a <= b THEN a ELSE b

Entry(ino, off, kind, name) == [ino |-> ino, off |-> off, kind |-> kind, name |-> name]

\* add_to_if_needed for each tag of the sequence in turn, as <<tree, ino_parts>>
RECURSIVE materialize(_, _, _, _)
materialize(t, dir, tns, acc) ==
    IF tns = <<>> THEN <<t, acc>>
    ELSE LET made == add_to_if_needed(t, dir, Head(tns))
         IN materialize(made[1], dir, Tail(tns),
                        Append(acc, made[1].nodes[made[2]].ino_part))

\* The body of readdir on the directory node dir: `tagorder` is the order in
\* which the clone of `tags` iterates (restricted to the tags not on the
\* path), `fileorder` the order in which the intersection iterates, cap the
\* number of entries the reply buffer holds (reply.add returns true, adding
\* nothing, once it is full).  The result is [tree, entries, panic].
readdir_body(t, ix, ino, dir, offset, cap, tagorder, fileorder) ==
    LET idx0 == offset + 3
        off1 == IF offset >= 2 THEN offset - 2 ELSE offset
        dots == IF offset >= 2 THEN <<>>
                ELSE <<Entry(ino, 1, "Directory", "."),
                       Entry(Ino_from_tag(t.nodes[dir].ino_part), 2, "Directory", "..")>>
        buf1 == SubSeq(dots, 1, Min(cap, Len(dots)))
        \* directories
        drain1 == Min(Len(tagorder), off1)
        tgs == SubSeq(tagorder, drain1 + 1, Len(tagorder))
        off2 == off1 - drain1
        free1 == cap - Len(buf1)
        \* the map closure has run for every tag up to the one whose add failed
        reached == IF off2 = 0 THEN SubSeq(tgs, 1, Min(Len(tgs), free1 + 1)) ELSE <<>>
        made == materialize(t, dir, [i \in DOMAIN reached |-> reached[i][1]], <<>>)
        ndirs == Min(Len(reached), free1)
        buf2 == buf1 \o [i \in 1..ndirs |->
                            Entry(Ino_from_tag(made[2][i]), idx0 + i - 1, "Directory",
                                  reached[i][2])]
        idx1 == idx0 + ndirs
        \* files
        drain2 == Min(Len(fileorder), off2)
        fls == SubSeq(fileorder, drain2 + 1, Len(fileorder))
        off3 == off2 - drain2
        free2 == cap - Len(buf2)
        seen == IF off3 = 0 THEN SubSeq(fls, 1, Min(Len(fls), free2 + 1)) ELSE <<>>
        nfiles == Min(Len(seen), free2)
        buf3 == buf2 \o [i \in 1..nfiles |->
                            Entry(Ino_from_parts(seen[i], Ino_tag(ino)), idx1 + i - 1,
                                  "RegularFile", get_fnm_by_number(ix, seen[i]))]
    IN IF Len(dots) > cap THEN [tree |-> t, entries |-> buf1, panic |-> FALSE]
       ELSE IF Len(reached) > free1 THEN [tree |-> made[1], entries |-> buf2, panic |-> FALSE]
       ELSE IF \E i \in DOMAIN seen : get_fnm_by_number(ix, seen[i]) = ""
            THEN [tree |-> made[1], entries |-> buf2, panic |-> TRUE]
       ELSE [tree |-> made[1], entries |-> buf3, panic |-> FALSE]

\* the tags readdir lists under a directory: those not on its path
unused_tags(ix, path) == {p \in ix.tags : p[1] \notin Range(path)}

readdir(ino, offset, cap) ==
    LET args == <<ino, offset, cap>>
        dir == TagTree_lookup(tree, Ino_tag(ino))
        used_tags == collect_tags(tree, dir)
    IN /\ Alive
       /\ before' = Snapshot
       /\ UNCHANGED <<tag_content, files, tags, file_tally, savefile, open_files, restarts>>
       /\ IF Ino_is_file(ino) THEN
              /\ reply' = Error("readdir", args, ENOTDIR)
              /\ UNCHANGED tree
          ELSE IF dir = 0 THEN
              /\ reply' = Error("readdir", args, ENOENT)
              /\ UNCHANGED tree
          ELSE IF intersection_panics(Index, used_tags) THEN
              /\ reply' = Panic("readdir", args)
              /\ UNCHANGED tree
          ELSE
              \E tagorder \in Orders(unused_tags(Index, used_tags)),
                 fileorder \in Orders(calculate_intersection(Index, used_tags)) :
                  LET r == readdir_body(tree, Index, ino, dir, offset, cap,
                                        tagorder, fileorder)
                  IN /\ tree' = r.tree
                     /\ reply' = IF r.panic THEN Panic("readdir", args)
                                 ELSE Reply("readdir", args, "ok", 0, 0, r.entries)

\* Handles passed by the kernel: any handle of the recorded range.
HandleArgs == 1..MaxHandles

\* open_ok: whether File::open of the backing file succeeds.  The reply
\* carries the handle in `entries`.
open(ino, open_ok) ==
    LET filename == get_fnm_by_number(Index, Ino_file(ino))
    IN /\ Alive
       /\ before' = Snapshot
       /\ UNCHANGED <<tree, tag_content, files, tags, file_tally, savefile, restarts>>
       /\ IF ~Ino_is_file(ino) \/ filename = "" THEN
              /\ reply' = Error("open", <<ino>>, ENOENT)
              /\ UNCHANGED open_files
          ELSE IF open_ok THEN
              /\ reply' = Reply("open", <<ino>>, "ok", 0, 0, <<next_handle(open_files)>>)
              /\ open_files' = backing_insert(open_files, filename)
          ELSE
              /\ reply' = Error("open", <<ino>>, EIO)
              /\ UNCHANGED open_files

\* read_ok: whether metadata and read_exact_at succeed.  The reply carries
\* the name of the file the data is read from.
read(fh, read_ok) ==
    /\ Alive
    /\ before' = Snapshot
    /\ UNCHANGED <<tree, tag_content, files, tags, file_tally, savefile, open_files, restarts>>
    /\ reply' = IF read_panics(open_files, fh) THEN Panic("read", <<fh>>)
                ELSE IF read_ok
                     THEN Reply("read", <<fh>>, "ok", 0, 0,
                                <<(CHOOSE p \in open_files : p[1] = fh)[2]>>)
                     ELSE Error("read", <<fh>>, EIO)

release(fh) ==
    /\ Alive
    /\ before' = Snapshot
    /\ UNCHANGED <<tree, tag_content, files, tags, file_tally, savefile, restarts>>
    /\ open_files' = backing_release(open_files, fh)
    /\ reply' = Reply("release", <<fh>>, "ok", 0, 0, <<>>)

\* reply buffers: one that holds every entry of a directory
Caps == {2 + MaxCounter + MaxTally}

\* The counters stay within the bounds.
Bounded ==
    /\ tree'.counter <= MaxCounter
    /\ file_tally' <= MaxTally
    /\ restarts' <= MaxRestarts

Next ==
    \/ Deliver
    \/ \E N \in SUBSET SourceNames : Remount(N) /\ Bounded
    \/ \E parent \in InoArgs, name \in NameArgs, meta_ok \in BOOLEAN :
          lookup(parent, name, meta_ok) /\ Bounded
    \/ \E ino \in InoArgs, meta_ok \in BOOLEAN : getattr(ino, meta_ok)
    \/ \E name \in MkdirArgs : mkdir(name) /\ Bounded
    \/ \E parent \in InoArgs, name \in UnlinkArgs : unlink(parent, name)
    \/ \E a \in RenameArgs : rename(a[1], a[2], a[3], a[4])
    \/ \E ino \in InoArgs, offset \in 0..MaxOffset, cap \in Caps :
          readdir(ino, offset, cap) /\ Bounded

Spec == Init /\ [][Next]_vars

\* One session without a restart on a source that holds every source name,
\* the tree grown up to MaxPathCounter nodes: two tags and the directories
\* /red/blue and /blue/red fit.
PathDirArgs == {Ino_from_tag(i) : i \in 1..MaxPathCounter}

BoundedPaths ==
    /\ tree'.counter <= MaxPathCounter
    /\ Len(tag_content') <= MaxPathTags

InitPaths ==
    /\ tree = TagTree_new
    /\ restarts = 0
    /\ before = NoSnapshot
    /\ \E order \in Orders(NewNames(Loaded(<<>>), Listing(<<>>, SourceNames))) :
          LET ix == repopulate(Loaded(<<>>), Listing(<<>>, SourceNames), order)
          IN /\ tag_content = ix.tag_content
             /\ files = ix.files
             /\ tags = ix.tags
             /\ file_tally = ix.file_tally
             /\ savefile = ix
             /\ open_files = started_table
             /\ reply = MountLog(Listing(<<>>, SourceNames), order)

NextPaths ==
    \/ Deliver
    \/ \E parent \in PathDirArgs, name \in TagNames :
          lookup(parent, name, TRUE) /\ BoundedPaths
    \/ \E name \in TagNames : mkdir(name) /\ BoundedPaths
    \/ \E d \in {x \in PathDirArgs \X PathDirArgs : x[1] # x[2]}, n \in SourceNames :
          rename(d[1], n, d[2], n)
    \/ \E ino \in PathDirArgs : readdir(ino, 0, 2 + MaxPathCounter + MaxTally) /\ BoundedPaths

SpecPaths == InitPaths /\ [][NextPaths]_vars

\* The operations that bind names (mkdir, rename of a tag, the re-index pass
\* of a restart), called with file names as well as tag names.
NextNames ==
    \/ Deliver
    \/ \E N \in SUBSET SourceNames : Remount(N) /\ Bounded
    \/ \E name \in SourceNames \cup TagNames : mkdir(name) /\ Bounded
    \/ \E n \in SourceNames \cup TagNames, m \in SourceNames \cup TagNames :
          rename(ROOT, n, ROOT, m)
    \/ \E n \in SourceNames \cup TagNames : rename(ROOT, n, Ino_from_tag(2), n)

SpecNames == Init /\ [][NextNames]_vars

\* The file callbacks (open, read, release) next to a callback that saves.
\* Inodes opened: those of InoArgs and every file number as seen under the root.
FileInoArgs == {Ino_from_parts(f, ROOT) : f \in 2..MaxTally}

NextFiles ==
    \/ Deliver
    \/ \E ino \in InoArgs \cup FileInoArgs, open_ok \in BOOLEAN : open(ino, open_ok)
    \/ \E fh \in HandleArgs, read_ok \in BOOLEAN : read(fh, read_ok)
    \/ \E fh \in HandleArgs : release(fh)
    \/ \E name \in MkdirArgs : mkdir(name) /\ Bounded
    \/ \E parent \in InoArgs, name \in NameArgs, meta_ok \in BOOLEAN :
          lookup(parent, name, meta_ok) /\ Bounded
    \/ \E ino \in InoArgs, meta_ok \in BOOLEAN : getattr(ino, meta_ok)
    \/ \E ino \in InoArgs, cap \in Caps : readdir(ino, 0, cap) /\ Bounded

SpecFiles == Init /\ [][NextFiles]_vars

\* readdir resumed at an offset and with small reply buffers, in a session
\* in which tags are made.
ListCaps == (1..MaxBuf) \cup Caps

NextReaddir ==
    \/ Deliver
    \/ \E name \in TagNames : mkdir(name) /\ Bounded
    \/ \E ino \in DirArgs, offset \in 0..MaxListOffset, cap \in ListCaps :
          readdir(ino, offset, cap) /\ Bounded

SpecReaddir == Init /\ [][NextReaddir]_vars

\* ------------------------------------------------------------------ claims
\* What the callback in flight was called with, read off the reply and the
\* history variable.
FullCap == 2 + MaxCounter + MaxTally

\* the set of a tag in a tag_content, {} when the tag is no key
SetOf(tc, t) == UNION {tc[j].v : j \in {j \in DOMAIN tc : tc[j].k = t}}
Keys(tc) == [j \in DOMAIN tc |-> tc[j].k]

\* the directory node an inode argument resolved to when the callback started
NodeOf(ino) == TagTree_lookup(before.tree, Ino_tag(ino))
ChainOf(ino) == collect_tags(before.tree, NodeOf(ino))

\* f is in the set of every tag of the chain, stated on tag_content itself
InEveryTag(tc, chain, f) ==
    \A i \in DOMAIN chain : \E j \in DOMAIN tc : tc[j].k = chain[i] /\ f \in tc[j].v

\* a readdir reply that is complete: from offset 0, the buffer not filled
CompleteReaddir ==
    /\ reply.op = "readdir"
    /\ reply.res = "ok"
    /\ reply.args[2] = 0
    /\ Len(reply.entries) < reply.args[3]

\* the file numbers a readdir reply lists as regular files
ListedFiles ==
    {f \in 1..MaxTally :
        \E i \in DOMAIN reply.entries :
            /\ reply.entries[i].kind = "RegularFile"
            /\ reply.entries[i].ino = Ino_from_parts(f, Ino_tag(reply.args[1]))
            /\ <<f, reply.entries[i].name>> \in files}

\* C1: a complete readdir(N) from offset 0 lists file F as a regular file if
\* and only if F is bound in `files` and is in tag_content[t] for every tag t
\* of collect_tags(N) (every bound file at the root); no readdir of a
\* materialized directory aborts.
C1_ReaddirListsIntersection ==
    /\ reply.op = "readdir" => reply.res # "panic"
    /\ CompleteReaddir =>
          \A f \in 1..MaxTally :
              f \in ListedFiles <=>
                  /\ f \in BiMap_left_values(files)
                  /\ InEveryTag(tag_content, ChainOf(reply.args[1]), f)

\* a complete readdir of a directory under two different tags that lists one
\* bound file and leaves out another
C1_Witness ==
    /\ CompleteReaddir
    /\ Cardinality(Range(ChainOf(reply.args[1]))) = 2
    /\ ListedFiles # {}
    /\ BiMap_left_values(files) \ ListedFiles # {}

\* the file names a complete readdir of a node lists in the current state
\* (the set does not depend on the order the hash containers iterate in)
ReaddirFiles(node) ==
    LET path == collect_tags(tree, node)
        ino == Ino_from_tag(tree.nodes[node].ino_part)
    IN IF intersection_panics(Index, path) THEN {"panic"}
       ELSE LET tagorder == CHOOSE o \in Orders(unused_tags(Index, path)) : TRUE
                fileorder == CHOOSE o \in Orders(calculate_intersection(Index, path)) : TRUE
                r == readdir_body(tree, Index, ino, node, 0,
                                  2 + MaxPathCounter + MaxTally, tagorder, fileorder)
            IN {r.entries[i].name :
                   i \in {j \in DOMAIN r.entries : r.entries[j].kind = "RegularFile"}}

\* C3: two materialized directories whose chains hold the same set of tags
\* (such as /red/blue and /blue/red) list the same set of files in a
\* complete readdir, in every reachable state.
C3_SameTagsSameFiles ==
    \A m, n \in DOMAIN tree.nodes :
        (m < n /\ Range(collect_tags(tree, m)) = Range(collect_tags(tree, n)))
            => ReaddirFiles(m) = ReaddirFiles(n)

\* /red/blue and /blue/red are both materialized, a file carries both tags
\* and another file only one of them
C3_Witness ==
    \E m, n \in DOMAIN tree.nodes :
        /\ Len(collect_tags(tree, m)) = 2
        /\ collect_tags(tree, n) = <<collect_tags(tree, m)[2], collect_tags(tree, m)[1]>>
        /\ collect_tags(tree, m)[1] # collect_tags(tree, m)[2]
        /\ ReaddirFiles(m) # {}
        /\ ReaddirFiles(m) # ReaddirFiles(tree.nodes[m].parent)

\* the file number a name was bound to when the callback started (0: none)
FileOf(name) == BiMap_get_by_right(before.index.files, name)
\* the tag number a name was bound to when the callback started (0: none)
TagOf(name) == BiMap_get_by_right(before.index.tags, name)

\* a lookup of a known filename in a directory inode that resolves
FileLookup ==
    /\ reply.op = "lookup"
    /\ Ino_is_tag(reply.args[1])
    /\ NodeOf(reply.args[1]) # 0
    /\ FileOf(reply.args[2]) # 0

\* C2: lookup(P, name) of a known filename with file number f replies with a
\* file entry (EIO when the backing metadata is not available) if and only
\* if f is in tag_content[t] for every tag t of collect_tags(P), and ENOENT
\* otherwise; it finds the file exactly when readdir(P) lists it.
C2_LookupFindsWhatReaddirLists ==
    FileLookup =>
        LET f == FileOf(reply.args[2])
            chain == ChainOf(reply.args[1])
            member == InEveryTag(tag_content, chain, f)
        IN /\ member => reply.res = "file" \/ (reply.res = "error" /\ reply.errno = EIO)
           /\ ~member => reply.res = "error" /\ reply.errno = ENOENT
           /\ member <=> f \in calculate_intersection(Index, chain)

\* a lookup under two different tags that finds its file, and one that does not
C2_Witness ==
    /\ FileLookup
    /\ Cardinality(Range(ChainOf(reply.args[1]))) = 2
    /\ reply.res = "file"
    /\ \E g \in BiMap_left_values(files) :
          ~InEveryTag(tag_content, ChainOf(reply.args[1]), g)

\* a successful rename that moved a file (its name was no tag name)
FileMoved ==
    /\ reply.op = "rename"
    /\ reply.res = "ok"
    /\ TagOf(reply.args[2]) = 0

\* C4: a successful rename(P, name, P', name) of a known file leaves the file
\* in tag_content[t] for every tag t of collect_tags(P'), removes it from
\* tag_content[t] for every tag t of collect_tags(P) that is not in
\* collect_tags(P'), and changes no other tag's set, no other file's
\* membership, and nothing else of the index.
C4_MoveRetags ==
    FileMoved =>
        LET f == FileOf(reply.args[2])
            old == Range(ChainOf(reply.args[1]))
            new == Range(ChainOf(reply.args[3]))
            was == before.index.tag_content
        IN /\ f # 0
           /\ reply.args[2] = reply.args[4]
           /\ reply.args[1] # reply.args[3]
           /\ Keys(tag_content) = Keys(was)
           /\ \A j \in DOMAIN was :
                 tag_content[j].v =
                     IF was[j].k \in new THEN was[j].v \cup {f}
                     ELSE IF was[j].k \in old THEN was[j].v \ {f}
                     ELSE was[j].v
           /\ files = before.index.files
           /\ tags = before.index.tags
           /\ file_tally = before.index.file_tally

\* a file moved from one tag's directory to another's: it has left the first
\* tag and carries the second
C4_Witness ==
    /\ FileMoved
    /\ \E t \in Range(ChainOf(reply.args[1])) \ Range(ChainOf(reply.args[3])) :
          /\ FileOf(reply.args[2]) \in SetOf(before.index.tag_content, t)
          /\ FileOf(reply.args[2]) \notin SetOf(tag_content, t)
    /\ \E t \in Range(ChainOf(reply.args[3])) :
          /\ FileOf(reply.args[2]) \notin SetOf(before.index.tag_content, t)
          /\ FileOf(reply.args[2]) \in SetOf(tag_content, t)

TagRenamed ==
    /\ reply.op = "rename"
    /\ reply.res = "ok"
    /\ TagOf(reply.args[2]) # 0

\* C6: rename of a known tag name to newname only rebinds that one tag's
\* name, for every newname: the tag keeps its number, its file-set and the
\* directory inodes materialized for it, every other tag keeps its own name
\* and file-set, newname resolves to the tag and the old name (when it is
\* another name) no longer resolves.
C6_TagRenameOnlyRebinds ==
    TagRenamed =>
        LET t == TagOf(reply.args[2])
        IN /\ tag_content = before.index.tag_content
           /\ tree = before.tree
           /\ files = before.index.files
           /\ file_tally = before.index.file_tally
           /\ \A p \in before.index.tags : p[1] # t => p \in tags
           /\ BiMap_get_by_right(tags, reply.args[4]) = t
           /\ reply.args[2] # reply.args[4] => BiMap_get_by_right(tags, reply.args[2]) = 0

\* a successful mkdir of a name that was not yet a tag name
TagMade ==
    /\ reply.op = "mkdir"
    /\ reply.res = "dir"
    /\ TagOf(reply.args[1]) = 0

\* C7: mkdir(name) for a name that is not yet a tag allocates a tag number
\* that was neither bound in `tags` nor a key of tag_content, also in a
\* session started from a savefile; it registers an empty file-set for it,
\* and every tag there was keeps its name and its file-set.
C7_MkdirAllocatesFreshTag ==
    TagMade =>
        LET t == Ino_tag(reply.ino)
            was == before.index
        IN /\ t \notin BiMap_left_values(was.tags)
           /\ t \notin IndexMap_keys(was.tag_content)
           /\ <<t, reply.args[1]>> \in tags
           /\ t \in IndexMap_keys(tag_content)
           /\ SetOf(tag_content, t) = {}
           /\ \A p \in was.tags : p \in tags
           /\ \A j \in DOMAIN was.tag_content : tag_content[j] = was.tag_content[j]

\* a mount that is a restart: `before` is the index of the stopped process
Restarted == reply.op = "mount" /\ restarts > 0

InoPartOf(ino) == before.tree.nodes[NodeOf(ino)].ino_part

\* C9: for a file with number f visible in directory N, lookup(N, name) and
\* the readdir(N) entry of the file both carry the inode
\* from_parts(f, ino_part(N)), whose file part is f in every directory; the
\* same file has distinct inodes in distinct directories.
C9_FileInodes ==
    /\ (reply.op = "lookup" /\ reply.res = "file") =>
          LET f == FileOf(reply.args[2])
          IN /\ reply.ino = Ino_from_parts(f, InoPartOf(reply.args[1]))
             /\ Ino_file(reply.ino) = f
             /\ Ino_tag(reply.ino) = InoPartOf(reply.args[1])
    /\ (reply.op = "readdir" /\ reply.res = "ok") =>
          \A i \in DOMAIN reply.entries :
              reply.entries[i].kind = "RegularFile" =>
                  LET f == FileOf(reply.entries[i].name)
                  IN /\ f # 0
                     /\ reply.entries[i].ino = Ino_from_parts(f, InoPartOf(reply.args[1]))
                     /\ Ino_file(reply.entries[i].ino) = f
                     /\ Ino_tag(reply.entries[i].ino) = InoPartOf(reply.args[1])
    /\ \A m, n \in DOMAIN tree.nodes :
          \A f \in BiMap_left_values(files) :
              m # n => Ino_from_parts(f, tree.nodes[m].ino_part)
                          # Ino_from_parts(f, tree.nodes[n].ino_part)

\* a lookup that finds a file in a tag's directory
C9_Witness ==
    /\ reply.op = "lookup"
    /\ reply.res = "file"
    /\ NodeOf(reply.args[1]) # 1
    /\ Ino_tag(reply.ino) # ROOT

\* C10: within a session every lookup(P, name of t) and every readdir(P)
\* entry of t carries the inode of the first child of P for t, and that
\* child and its ino_part, once there, are the same after every callback;
\* lookup and readdir add a child for (P, t) only when P has none, and at
\* most one.
C10_SameDirectoryInode ==
    reply.op \in {"lookup", "getattr", "mkdir", "unlink", "rename", "readdir"} =>
        /\ \A n \in DOMAIN before.tree.nodes :
              \A t \in 1..MaxCounter :
                  LET c == find_child(before.tree, n, t)
                  IN c # 0 =>
                        /\ find_child(tree, n, t) = c
                        /\ tree.nodes[c].ino_part = before.tree.nodes[c].ino_part
        /\ (reply.op = "lookup" /\ reply.res = "dir") =>
              LET c == find_child(tree, NodeOf(reply.args[1]), TagOf(reply.args[2]))
              IN /\ c # 0
                 /\ reply.ino = Ino_from_tag(tree.nodes[c].ino_part)
        /\ (reply.op = "readdir" /\ reply.res = "ok") =>
              \A i \in DOMAIN reply.entries :
                  (reply.entries[i].kind = "Directory"
                      /\ reply.entries[i].name \notin {".", ".."}) =>
                      LET c == find_child(tree, NodeOf(reply.args[1]),
                                          TagOf(reply.entries[i].name))
                      IN /\ c # 0
                         /\ reply.entries[i].ino = Ino_from_tag(tree.nodes[c].ino_part)
        /\ reply.op \in {"lookup", "readdir"} =>
              \A m \in (Len(before.tree.nodes) + 1)..Len(tree.nodes) :
                  /\ find_child(before.tree, tree.nodes[m].parent, tree.nodes[m].tag) = 0
                  /\ \A n \in (Len(before.tree.nodes) + 1)..Len(tree.nodes) :
                        (tree.nodes[n].parent = tree.nodes[m].parent
                            /\ tree.nodes[n].tag = tree.nodes[m].tag) => n = m

\* a lookup of a tag name under a directory that already had the tag's child
C10_Witness ==
    /\ reply.op = "lookup"
    /\ reply.res = "dir"
    /\ find_child(before.tree, NodeOf(reply.args[1]), TagOf(reply.args[2])) # 0
    /\ NodeOf(reply.args[1]) # 1

\* the inode the tag branch of lookup(parent, name) replies with in the
\* current state: the ino_part of the first child of the parent for the
\* name's tag, or of the child it adds (0: the name is no tag name)
LookupDirIno(node, name) ==
    LET t == BiMap_get_by_right(tags, name)
    IN IF t = 0 THEN 0
       ELSE LET made == add_to_if_needed(tree, node, t)
            IN Ino_from_tag(made[1].nodes[made[2]].ino_part)

\* C11: the inode mkdir replies with is from_tag(t) for the tag number t it
\* allocated, t is bound to the name, and it is the inode of the root-level
\* directory of the tag: lookup(ROOT, name) resolves to that same inode in
\* the state mkdir leaves (and, the first child of a pair being fixed for
\* the session, in every later state in which the name is still t's).
C11_MkdirInodeIsRootDirectory ==
    (reply.op = "mkdir" /\ reply.res = "dir") =>
        /\ Ino_is_tag(reply.ino)
        /\ reply.ino = Ino_from_tag(before.tree.counter + 1)
        /\ BiMap_get_by_right(tags, reply.args[1]) = Ino_tag(reply.ino)
        /\ LookupDirIno(1, reply.args[1]) = reply.ino

\* C12: between re-index passes the set of known files is fixed: no
\* callback (mkdir, rename, unlink, lookup, getattr, readdir) changes the
\* `files` bijection or file_tally, and a complete readdir of the root lists
\* every bound file, whatever sets it is in.
C12_KnownFilesFixed ==
    /\ reply.op \in {"lookup", "getattr", "mkdir", "unlink", "rename", "readdir"} =>
          /\ files = before.index.files
          /\ file_tally = before.index.file_tally
    /\ (CompleteReaddir /\ NodeOf(reply.args[1]) = 1) =>
          /\ ListedFiles = BiMap_left_values(files)
          /\ \A p \in files :
                \E i \in DOMAIN reply.entries :
                    /\ reply.entries[i].kind = "RegularFile"
                    /\ reply.entries[i].name = p[2]

\* a complete readdir of the root with a tagged and an untagged file, after a
\* tag was made
C12_Witness ==
    /\ CompleteReaddir
    /\ NodeOf(reply.args[1]) = 1
    /\ \E f \in ListedFiles : \E j \in DOMAIN tag_content : f \in tag_content[j].v
    /\ \E f \in ListedFiles : \A j \in DOMAIN tag_content : f \notin tag_content[j].v

\* C13: in every reachable state no name is bound both as a filename in
\* `files` and as a tag name in `tags`, and no two tags share a name.
C13_NamesDistinct ==
    /\ BiMap_right_values(files) \cap BiMap_right_values(tags) = {}
    /\ \A p, q \in tags : p[2] = q[2] => p = q

\* C14: every callback invocation ends with exactly one reply that is either
\* success or one of ENOENT, ENOTDIR, EIO, ENOTSUP; none aborts (panics)
\* instead of replying.
C14_EveryCallbackReplies ==
    reply.op \in {"lookup", "getattr", "mkdir", "unlink", "rename", "open", "read",
                  "release", "readdir"} =>
        /\ reply.res # "panic"
        /\ reply.res \in {"ok", "dir", "file", "error"}
        /\ reply.res = "error" <=> reply.errno # 0
        /\ reply.res = "error" => reply.errno \in {ENOENT, ENOTDIR, EIO, ENOTSUP}

\* C15: a directory operation whose directory inode is a file inode is
\* refused: lookup and readdir reply ENOTDIR, and unlink and rename with a
\* file inode as parent or newparent reply ENOTDIR or ENOENT and change no
\* tag association.
C15_FileInodeIsNoDirectory ==
    /\ (reply.op \in {"lookup", "readdir"} /\ Ino_is_file(reply.args[1])) =>
          /\ reply.res = "error"
          /\ reply.errno = ENOTDIR
    /\ (reply.op = "unlink" /\ Ino_is_file(reply.args[1])) =>
          /\ reply.res = "error"
          /\ reply.errno \in {ENOTDIR, ENOENT}
          /\ tag_content = before.index.tag_content
    /\ (reply.op = "rename"
           /\ (Ino_is_file(reply.args[1]) \/ Ino_is_file(reply.args[3]))) =>
          /\ reply.res = "error"
          /\ reply.errno \in {ENOTDIR, ENOENT}
          /\ tag_content = before.index.tag_content

\* a readdir that replied with entries: its directory, offset and buffer
ReaddirReply == reply.op = "readdir" /\ reply.res = "ok"

\* the kinds of the full synthesized list of the directory of a readdir
\* reply: '.', '..', a directory per tag not on the chain, a file per file of
\* the intersection
FullKinds ==
    LET chain == ChainOf(reply.args[1])
        m == Cardinality(unused_tags(before.index, chain))
        n == Cardinality(calculate_intersection(before.index, chain))
    IN <<".", "..">> \o [i \in 1..m |-> "Directory"] \o [i \in 1..n |-> "RegularFile"]

KindOf(e) == IF e.name \in {".", ".."} THEN e.name ELSE e.kind

\* C16: readdir(N, offset = k) emits exactly the entries at the positions
\* after the first k of the directory's full list ('.', '..', tag
\* directories, files), up to the capacity of the reply buffer: it skips the
\* first k entries and nothing else, and emits no entry twice.
C16_OffsetSkipsEntries ==
    ReaddirReply =>
        LET k == reply.args[2]
            cap == reply.args[3]
        IN /\ [i \in DOMAIN reply.entries |-> KindOf(reply.entries[i])]
                 = SubSeq(FullKinds, k + 1, Min(Len(FullKinds), k + cap))
           /\ \A i, j \in DOMAIN reply.entries :
                 reply.entries[i].name = reply.entries[j].name => i = j

\* C17: in every readdir reply the i-th emitted entry carries
\* next_offset = offset + i, for every starting offset.
C17_NextOffsetIsPosition ==
    ReaddirReply =>
        \A i \in DOMAIN reply.entries : reply.entries[i].off = reply.args[2] + i

\* A client that lists the directory of a node by repeated readdir calls
\* with a buffer of cap entries, each call passing the next_offset of the
\* last entry it received, until a call replies no entry; the hash
\* containers iterate in the same order in every call.  At most `calls`
\* calls are made: [done, got] with the names received in order.
RECURSIVE ClientList(_, _, _, _, _, _)
ClientList(t, node, offset, cap, calls, got) ==
    LET path == collect_tags(t, node)
        tagorder == CHOOSE o \in Orders(unused_tags(Index, path)) : TRUE
        fileorder == CHOOSE o \in Orders(calculate_intersection(Index, path)) : TRUE
        r == readdir_body(t, Index, Ino_from_tag(t.nodes[node].ino_part), node,
                          offset, cap, tagorder, fileorder)
        names == [i \in DOMAIN r.entries |-> r.entries[i].name]
    IN IF calls = 0 \/ r.panic THEN [done |-> FALSE, got |-> got]
       ELSE IF r.entries = <<>> THEN [done |-> TRUE, got |-> got]
       ELSE ClientList(r.tree, node, r.entries[Len(r.entries)].off, cap, calls - 1,
                       got \o names)

\* the names of the full list of the directory of a node
FullNames(node) ==
    LET path == collect_tags(tree, node)
    IN {".", ".."}
           \cup {p[2] : p \in unused_tags(Index, path)}
           \cup {get_fnm_by_number(Index, f) : f \in calculate_intersection(Index, path)}

\* C18: a client that lists a directory by repeated readdir calls with a
\* reply buffer of any fixed number k >= 1 of entries, with no mutation in
\* between, finishes after finitely many calls (no more than one per entry
\* and a last one) having received every entry exactly once.
C18_ClientListsDirectory ==
    \A node \in DOMAIN tree.nodes :
        \A k \in 1..MaxBuf :
            intersection_panics(Index, collect_tags(tree, node))
               \/ LET run == ClientList(tree, node, 0, k,
                                        Cardinality(FullNames(node)) + 1, <<>>)
                  IN /\ run.done
                     /\ Range(run.got) = FullNames(node)
                     /\ Len(run.got) = Cardinality(FullNames(node))

\* the entry lists a readdir of the directory of a node from offset 0 may
\* reply with in the current state, one per order in which the hash
\* containers may iterate
ReaddirLists(node) ==
    LET path == collect_tags(tree, node)
    IN {readdir_body(tree, Index, Ino_from_tag(tree.nodes[node].ino_part), node, 0,
                     FullCap, tagorder, fileorder).entries :
           tagorder \in Orders(unused_tags(Index, path)),
           fileorder \in Orders(calculate_intersection(Index, path))}

\* C19: with no intervening mutation two readdir calls on the same directory
\* synthesize the same entry list in the same order: in every state a
\* readdir of a directory has one possible entry list.
C19_StableOrder ==
    \A node \in DOMAIN tree.nodes :
        intersection_panics(Index, collect_tags(tree, node))
           \/ \A l1, l2 \in ReaddirLists(node) : l1 = l2

\* C20: after repopulate(N) the filenames bound in `files` are those of N
\* other than '.tagfs', each bound to exactly one file number (and each
\* number to one name); the savefile name is never bound.
C20_RepopulateBindsListing ==
    /\ reply.op = "mount" =>
          /\ BiMap_right_values(files) = reply.args[1] \ {SAVEFILE}
          /\ \A p, q \in files : (p[1] = q[1] \/ p[2] = q[2]) => p = q
    /\ SAVEFILE \notin BiMap_right_values(files)

\* a re-index pass over a listing that holds the savefile and a new name and
\* lacks a name bound before
C20_Witness ==
    /\ reply.op = "mount"
    /\ SAVEFILE \in reply.args[1]
    /\ \E p \in before.index.files : p[2] \notin reply.args[1]
    /\ \E p \in files : p[2] \notin BiMap_right_values(before.index.files)

\* C21: repopulate(N) keeps, for every filename known before that is in N,
\* its file number and its membership in every tag_content set, and removes
\* the file number of every filename known before that is not in N from
\* `files` and from every tag_content set; `tags` and the keys of
\* tag_content (in their order) are unchanged.
C21_RepopulateFrame ==
    Restarted =>
        LET was == before.index
            listing == reply.args[1] \ {SAVEFILE}
        IN /\ tags = was.tags
           /\ Keys(tag_content) = Keys(was.tag_content)
           /\ \A p \in was.files :
                 IF p[2] \in listing
                 THEN /\ p \in files
                      /\ \A j \in DOMAIN tag_content :
                            p[1] \in tag_content[j].v <=> p[1] \in was.tag_content[j].v
                 ELSE /\ p[1] \notin BiMap_left_values(files)
                      /\ \A j \in DOMAIN tag_content : p[1] \notin tag_content[j].v

\* a restart that keeps a tagged file and drops another tagged file
C21_Witness ==
    /\ Restarted
    /\ \E p \in before.index.files :
          /\ p \in files
          /\ \E j \in DOMAIN tag_content : p[1] \in tag_content[j].v
    /\ \E p \in before.index.files :
          /\ p[2] \notin reply.args[1]
          /\ \E j \in DOMAIN before.index.tag_content : p[1] \in before.index.tag_content[j].v

\* C22: file_tally never decreases (over a callback and over a restart);
\* the i-th file a re-index pass adds takes the number file_tally + i, which
\* is greater than every number issued before, the first number on an empty
\* index being 2; every bound file number lies in [2, file_tally].
C22_FileNumbersFresh ==
    /\ \A p \in files : 2 <= p[1] /\ p[1] <= file_tally
    /\ file_tally >= before.index.file_tally
    /\ reply.op = "mount" =>
          /\ file_tally = before.index.file_tally + Len(reply.entries)
          /\ \A i \in DOMAIN reply.entries :
                <<before.index.file_tally + i, reply.entries[i]>> \in files
          /\ \A p \in before.index.files :
                \A q \in files : q[1] = p[1] => q[2] = p[2]

\* a restart that adds a file after a file with a lower number was dropped
C22_Witness ==
    /\ Restarted
    /\ reply.entries # <<>>
    /\ \E p \in before.index.files : p[1] \notin BiMap_left_values(files)

\* a callback that mutates replied success
Mutated == reply.op \in {"mkdir", "unlink", "rename"} /\ reply.res \in {"ok", "dir"}

\* C23: after each successful mkdir, unlink and rename, and after
\* repopulate (create and write succeeding), '.tagfs' holds an encoding of
\* the in-memory {tag_content, files, tags, file_tally} as it stands after
\* the operation; a callback that replies an error and a read-only callback
\* do not rewrite it (no create: the file and the handle table are as
\* before).
C23_SavefileFollowsState ==
    /\ (Mutated \/ reply.op = "mount") =>
          /\ savefile = Index
          /\ SavedBytes = encode(Index)
    /\ (reply.res = "error"
           \/ reply.op \in {"lookup", "getattr", "readdir", "read"}) =>
          /\ savefile = before.savefile
          /\ open_files = before.open_files
    /\ reply.op \in {"open", "release"} => savefile = before.savefile

\* an unlink that changed a file-set and rewrote the savefile
C23_Witness ==
    /\ reply.op = "unlink"
    /\ reply.res = "ok"
    /\ tag_content # before.index.tag_content
    /\ savefile # before.savefile

\* C24: persistence round-trips: whatever bytes save produces for the index,
\* new_from_save decodes them to the same tag_content (keys, sets, key
\* order), the same files and tags and the same file_tally.
C24_SaveLoadRoundTrip ==
    \A bytes \in encode(Index) : new_from_save(bytes) = Index
C24_Witness == /\ Mutated
               /\ Len(tag_content) >= 2
               /\ \E i \in DOMAIN tag_content : Cardinality(tag_content[i].v) >= 2
               /\ files # {}
               /\ savefile = Index

\* C25: encoding is deterministic: the index encodes to one byte sequence,
\* whatever the order in which its hash sets and bijections iterate (two equal
\* index states then encode to identical bytes).
C25_EncodingDeterministic ==
    \A b1 \in encode(Index) : \A b2 \in encode(Index) : b1 = b2

\* C26: a handle returned by open stays valid until its own release: the
\* handles of the open files are pairwise distinct, an open takes a handle no
\* open file has and leaves the others as they are, a release or a savefile
\* write leaves every other handle with its file, and a read is served from
\* the file named when its handle was opened.
OpenedName == get_fnm_by_number(Index, Ino_file(reply.args[1]))
C26_HandlesStayValid ==
    /\ \A p \in open_files : \A q \in open_files : p[1] = q[1] => p[2] = q[2]
    /\ (reply.op = "open" /\ reply.res = "ok" /\ reply.entries[1] <= MaxHandles) =>
          /\ reply.entries[1] \notin backing_handles(before.open_files)
          /\ open_files = before.open_files \cup {<<reply.entries[1], OpenedName>>}
    /\ reply.op = "release" =>
          \A p \in before.open_files : p[1] # reply.args[1] => p \in open_files
    /\ reply.op = "mkdir" => before.open_files \subseteq open_files
    /\ (reply.op = "read" /\ reply.res = "ok") =>
          /\ <<reply.args[1], reply.entries[1]>> \in before.open_files
          /\ open_files = before.open_files
C26_Witness ==
    /\ reply.op = "read" /\ reply.res = "ok"
    /\ reply.entries[1] \in SourceNames
    /\ \E p \in open_files :
          /\ p[1] # reply.args[1]
          /\ p[2] \in SourceNames \ {reply.entries[1]}
    /\ tags # {}

\* ------------------------------------------------------------ SpecCodec
\* The inode codec on its own: a file part and a tag part are drawn, each
\* of SPLIT bits, and from_parts or from_tag is applied to them.
CodecParts == 0..(Pow2(SPLIT) - 1)

InitCodec ==
    /\ tree = TagTree_new
    /\ tag_content = TagFS_new.tag_content
    /\ files = TagFS_new.files
    /\ tags = TagFS_new.tags
    /\ file_tally = TagFS_new.file_tally
    /\ savefile = <<>>
    /\ open_files = {}
    /\ before = NoSnapshot
    /\ restarts = 0
    /\ \E f \in CodecParts, t \in CodecParts :
          reply = Reply("parts", <<f, t>>, "idle", 0, 0, <<>>)

\* Ino::from_parts(file, tag), then Ino::file and Ino::tag of the result
codec_from_parts ==
    /\ reply.op = "parts"
    /\ LET ino == Ino_from_parts(reply.args[1], reply.args[2])
       IN reply' = Reply("from_parts", reply.args, "ok", 0, ino, <<Ino_file(ino), Ino_tag(ino)>>)
    /\ UNCHANGED <<tree, tag_content, files, tags, file_tally, savefile, open_files,
                   before, restarts>>

\* Ino::from_tag(tag), then Ino::file and Ino::tag of the result
codec_from_tag ==
    /\ reply.op = "parts"
    /\ LET ino == Ino_from_tag(reply.args[2])
       IN reply' = Reply("from_tag", reply.args, "ok", 0, ino, <<Ino_file(ino), Ino_tag(ino)>>)
    /\ UNCHANGED <<tree, tag_content, files, tags, file_tally, savefile, open_files,
                   before, restarts>>

NextCodec ==
    \/ codec_from_parts
    \/ codec_from_tag

SpecCodec == InitCodec /\ [][NextCodec]_vars

\* C27: for all f and t of SPLIT bits, the file part of from_parts(f, t) is f
\* and its tag part is t; from_tag(t) is from_parts(0, t); the two parts do
\* not overlap (the inode is f * 2^SPLIT + t, within the word).
C27_CodecRoundTrip ==
    /\ reply.op = "from_parts" =>
          /\ reply.entries = reply.args
          /\ reply.ino = reply.args[1] * Pow2(SPLIT) + reply.args[2]
          /\ reply.ino < Pow2(WORD)
          /\ BitAnd(reply.ino - reply.args[2], reply.args[2]) = 0
    /\ reply.op = "from_tag" =>
          /\ reply.ino = Ino_from_parts(0, reply.args[2])
          /\ reply.entries = <<0, reply.args[2]>>
C27_Witness ==
    /\ reply.op = "from_parts"
    /\ reply.args = <<Pow2(SPLIT) - 1, Pow2(SPLIT) - 1>>
    /\ reply.entries = reply.args

\* ------------------------------------------------------------- SpecWide
\* A process started over the savefile of earlier sessions in which files came
\* and went (each new name takes the next file number, a name that has gone
\* frees none): no file and no tag is left and file_tally stands two short of
\* 2^SPLIT.  The index is taken as loaded; no restart follows.
LateIndex == [tag_content |-> <<>>, files |-> {}, tags |-> {}, file_tally |-> Pow2(SPLIT) - 2]

InitWide ==
    /\ tree = TagTree_new
    /\ restarts = 0
    /\ before = NoSnapshot
    /\ \E N \in SUBSET SourceNames :
          \E order \in Orders(NewNames(LateIndex, N \cup {SAVEFILE})) :
             LET ix == repopulate(LateIndex, N \cup {SAVEFILE}, order)
             IN /\ tag_content = ix.tag_content
                /\ files = ix.files
                /\ tags = ix.tags
                /\ file_tally = ix.file_tally
                /\ savefile = ix
                /\ open_files = started_table
                /\ reply = MountLog(N \cup {SAVEFILE}, order)

BoundedWide == tree'.counter <= MaxCounter

NextWide ==
    \/ Deliver
    \/ \E parent \in DirArgs, name \in NameArgs : lookup(parent, name, TRUE) /\ BoundedWide
    \/ \E name \in TagNames : mkdir(name) /\ BoundedWide
    \/ \E ino \in DirArgs, cap \in Caps : readdir(ino, 0, cap) /\ BoundedWide

SpecWide == InitWide /\ [][NextWide]_vars

\* C28: every inode issued for a directory (lookup of a tag, mkdir, the '.',
\* '..' and tag entries of readdir) has file part 0 and every inode issued for
\* a file (lookup of a file, the file entries of readdir) has a non-zero file
\* part, so is_tag and is_file classify every issued inode correctly, however
\* far the counters have advanced.
C28_IssuedInodesClassified ==
    /\ reply.res = "dir" => Ino_is_tag(reply.ino)
    /\ reply.res = "file" => Ino_is_file(reply.ino)
    /\ ReaddirReply =>
          \A i \in DOMAIN reply.entries :
             /\ reply.entries[i].kind = "Directory" => Ino_is_tag(reply.entries[i].ino)
             /\ reply.entries[i].kind = "RegularFile" => Ino_is_file(reply.entries[i].ino)

\* C29: rename replies ENOTSUP exactly when name is no known tag name and it
\* is not the case that name = newname with parent different from newparent:
\* a file renamed to another filename is always refused, and a name that is a
\* tag name is renamed as a tag (only `tags` changes) whatever else it is.
RenameRefused == reply.op = "rename" /\ reply.res = "error" /\ reply.errno = ENOTSUP
C29_RenameRefusals ==
    reply.op = "rename" =>
       LET parent == reply.args[1]
           name == reply.args[2]
           newparent == reply.args[3]
           newname == reply.args[4]
           tg == get_tnb_by_name(before.index, name)
       IN /\ RenameRefused <=> (tg = 0 /\ ~(name = newname /\ parent # newparent))
          /\ (tg = 0 /\ name # newname) => RenameRefused
          /\ tg # 0 =>
                /\ reply.res = "ok"
                /\ tags = BiMap_insert(before.index.tags, tg, newname)
                /\ tag_content = before.index.tag_content
                /\ files = before.index.files
C29_Witness ==
    /\ RenameRefused
    /\ get_fnb_by_name(Index, reply.args[2]) # 0
    /\ reply.args[4] # reply.args[2]
    /\ get_fnb_by_name(Index, reply.args[4]) = 0

\* C30: no two TagNodes have the same ino_part: within a session the counter
\* only increases, the nodes a callback adds take values above every value
\* used before (the nodes it found stay as they were), the root is the only
\* node with ino_part 1, and the cache maps each issued ino_part to the node
\* that carries it.
C30_InoPartsUnique ==
    /\ \A i \in DOMAIN tree.nodes : \A j \in DOMAIN tree.nodes :
          tree.nodes[i].ino_part = tree.nodes[j].ino_part => i = j
    /\ \A i \in DOMAIN tree.nodes :
          /\ tree.nodes[i].ino_part <= tree.counter
          /\ tree.nodes[i].ino_part = ROOT <=> i = 1
    /\ DOMAIN tree.cache = {tree.nodes[i].ino_part : i \in DOMAIN tree.nodes}
    /\ \A ip \in DOMAIN tree.cache : tree.nodes[tree.cache[ip]].ino_part = ip
    /\ reply.op # "mount" =>
          /\ tree.counter >= before.tree.counter
          /\ Len(tree.nodes) >= Len(before.tree.nodes)
          /\ \A i \in DOMAIN tree.nodes :
                IF i <= Len(before.tree.nodes)
                THEN tree.nodes[i] = before.tree.nodes[i]
                ELSE tree.nodes[i].ino_part > before.tree.counter
C30_Witness ==
    /\ reply.op = "readdir"
    /\ Len(tree.nodes) > Len(before.tree.nodes)
    /\ Len(before.tree.nodes) >= 2
    /\ restarts = 1

\* C31: every directory inode returned by lookup, mkdir or readdir stays
\* resolvable for the rest of the session: the inode a reply carries is in
\* the cache, what the cache resolved when a callback started it resolves
\* after it to the same node with the same chain of tags, and a readdir or a
\* lookup of a tag name on such an inode is not answered ENOENT.
Resolvable(t, ino) == Ino_is_tag(ino) /\ TagTree_lookup(t, Ino_tag(ino)) # 0
C31_DirectoryInodesStay ==
    /\ (reply.op \in {"lookup", "mkdir"} /\ reply.res = "dir") => Resolvable(tree, reply.ino)
    /\ ReaddirReply =>
          \A i \in DOMAIN reply.entries :
             reply.entries[i].kind = "Directory" => Resolvable(tree, reply.entries[i].ino)
    /\ reply.op # "mount" =>
          \A ip \in DOMAIN before.tree.cache :
             /\ TagTree_lookup(tree, ip) = TagTree_lookup(before.tree, ip)
             /\ collect_tags(tree, TagTree_lookup(tree, ip))
                   = collect_tags(before.tree, TagTree_lookup(before.tree, ip))
    /\ (reply.op = "readdir" /\ Resolvable(before.tree, reply.args[1])) =>
          ~(reply.res = "error" /\ reply.errno = ENOENT)
    /\ (/\ reply.op = "lookup"
        /\ Resolvable(before.tree, reply.args[1])
        /\ get_fnb_by_name(Index, reply.args[2]) = 0
        /\ get_tnb_by_name(Index, reply.args[2]) # 0) => reply.res = "dir"
C31_Witness ==
    /\ ReaddirReply
    /\ reply.args[1] # ROOT
    /\ Len(tree.nodes) > Len(before.tree.nodes)
    /\ Len(before.tree.nodes) >= 3

\* ------------------------------------------------------ SpecIntersection
\* calculate_intersection on its own: the index is brought to its states by
\* mkdir and by moves of files between directories, and the function is
\* called with tag lists of tag numbers that are keys of tag_content and of
\* numbers that are not.
TagLists ==
    {<<t>> : t \in 2..(MaxCounter + 1)}
        \cup {<<t, u>> : t \in 2..(MaxCounter + 1), u \in 2..(MaxCounter + 1)}

\* a call of calculate_intersection(path); unwrap on no set aborts
intersection(path) ==
    /\ Alive
    /\ before' = Snapshot
    /\ UNCHANGED <<tree, tag_content, files, tags, file_tally, savefile, open_files, restarts>>
    /\ reply' = IF intersection_panics(Index, path)
                THEN Panic("calculate_intersection", <<path>>)
                ELSE Reply("calculate_intersection", <<path>>, "ok", 0, 0,
                           <<calculate_intersection(Index, path)>>)

NextIntersection ==
    \/ Deliver
    \/ \E name \in TagNames : mkdir(name) /\ Bounded
    \/ \E d \in {x \in DirArgs \X DirArgs : x[1] # x[2]}, n \in SourceNames :
          rename(d[1], n, d[2], n)
    \/ \E path \in TagLists : intersection(path)

SpecIntersection == Init /\ [][NextIntersection]_vars

\* C32: intersection(tag_list) returns the empty set whenever tag_list holds
\* a tag number that is no key of tag_content, for every non-empty tag_list
\* (one in which no tag is a key included).
C32_MissingTagEmpties ==
    (/\ reply.op = "calculate_intersection"
     /\ \E i \in DOMAIN reply.args[1] : ~IndexMap_contains(tag_content, reply.args[1][i])) =>
        /\ reply.res = "ok"
        /\ reply.entries = <<{}>>

\* C33: save leaves no backing handle open: after any callback or re-index
\* pass the open-file table holds the handles of the opens not yet released
\* and nothing else (no handle of the savefile), and a mutating callback
\* adds no entry to it.
C33_SaveLeavesNoHandle ==
    /\ \A p \in open_files : p[2] # SAVEFILE
    /\ Mutated => open_files = before.open_files

\* C34: in every reachable state the tag numbers bound to a name in `tags`
\* are exactly the keys of tag_content: no file set without a tag name, no
\* tag name without a file set.
C34_TagsAreKeys ==
    BiMap_left_values(tags) = {tag_content[i].k : i \in DOMAIN tag_content}

\* C35: in every reachable state every file number in a set of tag_content
\* is bound to a filename in `files`, so readdir finds a name for every file
\* number of an intersection (it never aborts for a file without a name).
C35_NoDanglingMembers ==
    /\ \A i \in DOMAIN tag_content : tag_content[i].v \subseteq BiMap_left_values(files)
    /\ ReaddirReply =>
          \A i \in DOMAIN reply.entries : reply.entries[i].name # ""
    /\ (reply.op = "readdir" /\ reply.res = "panic") =>
          intersection_panics(before.index, ChainOf(reply.args[1]))
C35_Witness ==
    /\ Restarted
    /\ \E i \in DOMAIN before.index.tag_content :
          \E f \in before.index.tag_content[i].v : f \notin BiMap_left_values(files)
    /\ Len(tag_content) >= 2

\* C36: in every reachable state the tags on the chain of any TagNode are
\* pairwise distinct, and lookup(N, name) replies with a directory only for a
\* tag that is not on the chain of N (a name readdir(N) lists).
C36_ChainTagsDistinct ==
    /\ \A n \in DOMAIN tree.nodes :
          LET chain == collect_tags(tree, n)
          IN \A i \in DOMAIN chain : \A j \in DOMAIN chain : chain[i] = chain[j] => i = j
    /\ (reply.op = "lookup" /\ reply.res = "dir") =>
          get_tnb_by_name(before.index, reply.args[2]) \notin Range(ChainOf(reply.args[1]))

\* C37: lookup, getattr, readdir, open, read and release never change
\* tag_content, `files`, `tags` or file_tally and never rewrite the savefile;
\* lookup and readdir may only add nodes to the tree (and advance the
\* counter); getattr, open, read and release leave the tree as it was.
C37_ReadersFrame ==
    /\ reply.op \in {"lookup", "getattr", "readdir", "open", "read", "release"} =>
          /\ Index = before.index
          /\ savefile = before.savefile
    /\ reply.op \in {"lookup", "getattr", "readdir", "read"} =>
          open_files = before.open_files
    /\ reply.op \in {"getattr", "open", "read", "release"} => tree = before.tree
    /\ reply.op \in {"lookup", "readdir"} =>
          /\ tree.counter >= before.tree.counter
          /\ Len(tree.nodes) = Len(before.tree.nodes) + (tree.counter - before.tree.counter)
          /\ SubSeq(tree.nodes, 1, Len(before.tree.nodes)) = before.tree.nodes
C37_Witness ==
    /\ reply.op = "lookup"
    /\ tree.counter > before.tree.counter
    /\ tag_content # <<>>
    /\ files # {}
    /\ \E p \in open_files : p[2] \in SourceNames

\* C38: a mkdir, unlink or rename that replies with an error (ENOENT or
\* ENOTSUP) leaves tag_content, `files`, `tags`, file_tally, the tag tree and
\* the savefile exactly as they were.
FailedMutation ==
    /\ reply.op \in {"mkdir", "unlink", "rename"}
    /\ reply.res = "error"
C38_FailedMutationsChangeNothing ==
    FailedMutation =>
       /\ reply.errno \in {ENOENT, ENOTSUP}
       /\ Index = before.index
       /\ tree = before.tree
       /\ savefile = before.savefile
       /\ open_files = before.open_files
C38_Witness ==
    /\ FailedMutation
    /\ reply.op = "rename" /\ reply.errno = ENOENT
    /\ get_fnb_by_name(Index, reply.args[2]) # 0
    /\ \E i \in DOMAIN tag_content : tag_content[i].v # {}

\* the number of steps from a node up to the root, and the node k steps up
RECURSIVE Depth(_, _)
Depth(t, n) == IF t.nodes[n].parent = 0 THEN 0 ELSE 1 + Depth(t, t.nodes[n].parent)
RECURSIVE Ancestor(_, _, _)
Ancestor(t, n, k) == IF k = 0 THEN n ELSE Ancestor(t, t.nodes[n].parent, k - 1)

\* C39: collect_tags(node) is the tags on the path from the root to the node
\* in root-to-leaf order, the root left out: its length is the node's depth,
\* its i-th element is the tag of the ancestor at depth i, its last element
\* the node's own tag, and for the root it is empty.
C39_CollectTagsIsPath ==
    \A n \in DOMAIN tree.nodes :
       LET c == collect_tags(tree, n)
           d == Depth(tree, n)
       IN /\ Len(c) = d
          /\ \A i \in 1..d : c[i] = tree.nodes[Ancestor(tree, n, d - i)].tag
          /\ n = 1 => c = <<>>
          /\ n # 1 => (d >= 1 /\ c[d] = tree.nodes[n].tag)
C39_Witness ==
    /\ ReaddirReply
    /\ NodeOf(reply.args[1]) # 0
    /\ Len(ChainOf(reply.args[1])) >= 2
    /\ ChainOf(reply.args[1])[1] # ChainOf(reply.args[1])[2]
    /\ Depth(tree, NodeOf(reply.args[1])) = Len(ChainOf(reply.args[1]))

====
